---- MODULE Spec2Model ----
(***************************************************************************)
(* Model of the content curation and citation pipeline of                  *)
(* community-info-collector-backend:                                       *)
(*   - the Citation Mapper (LLMService._extract_footnote_mapping and       *)
(*     _convert_refs_to_footnotes, and the older FootnoteService),         *)
(*   - the Deduplicator (OrchestratorService._remove_duplicates and        *)
(*     AnalysisService._deduplicate_posts),                                *)
(*   - the Relevance Filter (RelevanceFilteringService),                   *)
(*   - the sliding-window rate limiter (RedditService._check_rate_limit).  *)
(* Each component has its own specification over the shared variables.     *)
(***************************************************************************)
EXTENDS Integers, Sequences, FiniteSets, Bags, TLC

VARIABLES
    \* ---- Citation Mapper ----
    posts,             \* the source items handed to generate_report
    full_report,       \* the text the mapper is given (LLM response)
    raw_report,        \* the text before the latest mapper run
    footnote_mapping,  \* the footnote list returned by the latest run
    runs,              \* number of mapper runs on this text
    service,           \* which mapper ran: "none", "llm", "footnote"
    \* ---- Deduplicator ----
    all_content,       \* the collected items, in collection order
    unique_content,    \* the list returned by the latest dedup run
    dedup_input,       \* the list the latest dedup run was given
    dedup_runs,        \* number of dedup runs
    deduper,           \* which dedup ran: "none", "orchestrator", "analysis"
    \* ---- Relevance Filter ----
    content_items,     \* the list handed to filter_relevant_content
    judge,             \* judge[i]: the score the LLM judge returns for item i
    batch_modes,       \* per batch: "ok", "raise" or "unparsable"
    final_content,     \* the list filter_relevant_content returned
    filter_pc,         \* "collecting" or "done"
    \* ---- Rate limiter ----
    clock,             \* what datetime.now() returns, in seconds
    request_timestamps,\* the deque of recorded call times, oldest first
    lock_holder,       \* the caller inside rate_limit_lock, 0 when free
    lock_waiters,      \* the callers waiting for rate_limit_lock, in order
    caller_pc,         \* per caller: "idle", "queued" or "sleeping"
    caller_now,        \* per caller: its local variable now
    wake_at,           \* per caller: when its asyncio.sleep ends
    admitted           \* bag of [stamp, at]: a call returned at time at
                       \* and recorded the timestamp stamp

citeVars == <<posts, full_report, raw_report, footnote_mapping, runs, service>>

dedupVars == <<all_content, unique_content, dedup_input, dedup_runs, deduper>>

filterVars == <<content_items, judge, batch_modes, final_content, filter_pc>>

limiterVars == <<clock, request_timestamps, lock_holder, lock_waiters,
                 caller_pc, caller_now, wake_at, admitted>>

VARIABLES
    \* ---- Topic Clusterer ----
    cluster_input,     \* the filtered items handed to cluster_content
    topics,            \* the number of topics _extract_topics returned
    assign_response,   \* the classifier's response for each batch
    assignments,       \* the assignment used for each batch
    clusters,          \* the clusters cluster_content returned
    cluster_pc         \* "collecting", "done" or "failed"

clusterVars == <<cluster_input, topics, assign_response, assignments,
                 clusters, cluster_pc>>

VARIABLES
    \* ---- Quality-Assurance Orchestrator ----
    qa_state,          \* "SYNTHESIZING", "QUALITY_CHECK", "REPAIRING",
                       \* "DONE" or "RAISED"
    qa_report,         \* the report dict handed to _quality_assurance
    qa_metrics,        \* consistency score and completeness of the check
    repair_response,   \* what the repair LLM call returned
    repair_calls,      \* number of repair LLM calls issued
    repair_entries,    \* number of times REPAIRING was entered
    final_report       \* what _quality_assurance returned

qaVars == <<qa_state, qa_report, qa_metrics, repair_response, repair_calls,
            repair_entries, final_report>>

VARIABLES
    \* ---- LLM concurrency gate ----
    llm_provider,      \* per stage: the provider of its LLMService
    llm_shared,        \* per stage: whether it was given the global semaphore
    llm_pc,            \* per stage: "unbuilt", "idle", "waiting", "in_call",
                       \* "served", "api_error" or "gate_error"
    global_permits,    \* free permits of main.api_semaphore
    private_permits,   \* per stage: free permits of its provider's own semaphore
    loop_busy          \* the stage whose blocking call holds the event loop, or 0

gateVars == <<llm_provider, llm_shared, llm_pc, global_permits,
              private_permits, loop_busy>>

VARIABLES
    \* ---- report persistence ----
    an_pc,             \* position in process_search_request: "synthesis",
                       \* "save_report", "save_links", "schedule", "returned"
                       \* or "raised"
    an_report,         \* the report generate_report returned, <<>> before
    an_schedule_yn,    \* whether the request asks for a schedule
    an_report_id,      \* id save_report returned, 0 before
    db_reports,        \* rows of table reports
    db_links,          \* rows of table report_links
    an_failed_at,      \* the storage call that raised, "none" if none did
    an_result          \* what process_search_request returned, <<>> if nothing

storeVars == <<an_pc, an_report, an_schedule_yn, an_report_id, db_reports,
               db_links, an_failed_at, an_result>>

VARIABLES
    \* ---- Reddit collector ----
    collect_pc,        \* "loop" (between keywords), "vectors" (inside
                       \* search_posts), "returned" or "raised"
    kw_i,              \* number of keywords the loop has finished
    vector_i,          \* number of vectors _search has finished
    all_submissions,   \* _search: submissions of the vectors so far
    all_posts,         \* search_with_keywords: posts of the keywords so far
    vectors_ok,        \* history: per keyword, the vectors whose query succeeded
    kw_failed,         \* history: the keywords whose search raised
    search_admissions, \* history: calls of _check_rate_limit that returned
    search_queries     \* history: search queries the platform received

collectVars == <<collect_pc, kw_i, vector_i, all_submissions, all_posts,
                 vectors_ok, kw_failed, search_admissions, search_queries>>

VARIABLES
    \* ---- analysis pipeline ----
    pl_state,          \* the state of the run: "START", "KEYWORDS",
                       \* "COLLECTING", ..., "DONE" or "FAILED"
    pl_trace,          \* history: the states the run has entered, in order
    pl_callback,       \* whether a progress_callback was given
    pl_progress,       \* the calls of progress_callback: state and percent
    pl_keywords,       \* number of expanded keywords, 0 before the expansion
    pl_collected       \* number of keywords already collected

pipelineVars == <<pl_state, pl_trace, pl_callback, pl_progress, pl_keywords,
                  pl_collected>>

VARIABLES
    \* ---- orchestrator's filter stage ----
    to_clustering,     \* the list _filter_with_quality_check returned
    band_pc            \* "waiting" or "passed"

bandVars == <<to_clustering, band_pc>>

vars == <<citeVars, dedupVars, filterVars, limiterVars,
         clusterVars,
         qaVars,
         gateVars,
         storeVars,
         collectVars,
         pipelineVars,
         bandVars>>

-----------------------------------------------------------------------------
(* Generic helpers: Python list operations                                 *)

Range(s) == {s[i] : i \in DOMAIN s}

\* list.sort(key=..., reverse=True): stable, descending; keys[i] is the key
\* of s[i], perm is the order built so far (indexes into s)
InsertDesc(i, perm, keys) ==
    LET later == {p \in 1..Len(perm) : keys[perm[p]] < keys[i]}
        at == IF later = {} THEN Len(perm) + 1
              ELSE CHOOSE p \in later : \A q \in later : p <= q
    IN  SubSeq(perm, 1, at - 1) \o <<i>> \o SubSeq(perm, at, Len(perm))

SortDesc(s, keys) ==
    LET F[i \in 0..Len(s)] ==
            IF i = 0 THEN <<>> ELSE InsertDesc(i, F[i - 1], keys)
    IN  [i \in 1..Len(s) |-> s[F[Len(s)][i]]]

\* list.sort(key=...): stable, ascending
InsertAsc(i, perm, keys) ==
    LET later == {p \in 1..Len(perm) : keys[perm[p]] > keys[i]}
        at == IF later = {} THEN Len(perm) + 1
              ELSE CHOOSE p \in later : \A q \in later : p <= q
    IN  SubSeq(perm, 1, at - 1) \o <<i>> \o SubSeq(perm, at, Len(perm))

SortAsc(s, keys) ==
    LET F[i \in 0..Len(s)] ==
            IF i = 0 THEN <<>> ELSE InsertAsc(i, F[i - 1], keys)
    IN  [i \in 1..Len(s) |-> s[F[Len(s)][i]]]

\* the distinct elements of s in order of first occurrence
FirstOccurrences(s) ==
    LET F[i \in 0..Len(s)] ==
            IF i = 0 THEN <<>>
            ELSE IF s[i] \in Range(F[i - 1]) THEN F[i - 1]
                 ELSE Append(F[i - 1], s[i])
    IN  F[Len(s)]


-----------------------------------------------------------------------------
(* Citation Mapper                                                         *)

MaxPosts == 3      \* source items per report
MaxLen == 4        \* tokens per report text
MaxRuns == 2       \* mapper runs on one text

Types == {"post", "comment"}

\* platform id of the i-th collected item
PlatformId(i) == "id" \o ToString(i)

\* A report is a sequence of tokens.  "ref" is a substring matching
\* \[ref:([^\]]+)\] with group(1) = id; "num" is a numeric footnote [n];
\* "txt" is any text without a marker; "heading" and "line" are the pieces
\* of the reference section.
Ref(id) == [kind |-> "ref", id |-> id, n |-> 0]
Num(k) == [kind |-> "num", id |-> "", n |-> k]
Txt == [kind |-> "txt", id |-> "", n |-> 0]
Heading == [kind |-> "heading", id |-> "", n |-> 0]
Line(item) == [kind |-> "line", id |-> item.title, n |-> item.footnote_number]

\* marker targets the LLM may write
MarkerTargets == {"POST_1", "POST_2", "POST_3", "COMMENT_1", "id1"}

LLMTokens == {Ref(t) : t \in MarkerTargets} \cup {Txt}

\* re.findall(ref_pattern, report)
FindRefs(report) ==
    LET marks == SelectSeq(report, LAMBDA tok : tok.kind = "ref")
    IN  [i \in 1..Len(marks) |-> marks[i].id]

\* the key under which the mapper files the idx-th item
RefId(item, idx) ==
    IF item.type = "post" THEN "POST_" \o ToString(idx)
    ELSE "COMMENT_" \o ToString(idx)

\* _format_posts_for_prompt: index -> item, for posts[:30]
IndexMapping(ps) == [i \in 1..Len(ps) |-> ps[i]]

\* posts_by_ref_id, as the set of indexes it holds and their keys
PostsByRefId(ps, index_mapping) ==
    LET src == IF index_mapping # <<>> THEN index_mapping ELSE ps
    IN  [i \in 1..Len(src) |-> [key |-> RefId(src[i], i), post |-> src[i]]]

Resolves(key, ps) ==
    \E i \in 1..Len(ps) : PostsByRefId(ps, IndexMapping(ps))[i].key = key

\* one footnote_mapping.append({...}); ref records the marker target the
\* entry was created for (not a field of the code's dict)
Entry(num, post, ref) ==
    [footnote_number |-> num, post_id |-> post.id, title |-> post.id, ref |-> ref]

\* LLMService._extract_footnote_mapping
ExtractFootnoteMapping(report, ps, index_mapping) ==
    LET refs == FindRefs(report)
        unique_refs == FirstOccurrences(refs)
        by_ref == PostsByRefId(ps, index_mapping)
        found(key) == {i \in 1..Len(by_ref) : by_ref[i].key = key}
        F[n \in 0..Len(unique_refs)] ==
            IF n = 0 THEN <<>>
            ELSE IF found(unique_refs[n]) # {}
                 THEN Append(F[n - 1],
                        Entry(n, by_ref[CHOOSE i \in found(unique_refs[n]) :
                                   \A j \in found(unique_refs[n]) : j <= i].post,
                              unique_refs[n]))
                 ELSE F[n - 1]
    IN  IF refs = <<>> THEN <<>>
        ELSE LET mapping == F[Len(unique_refs)]
             IN  SortAsc(mapping,
                         [i \in 1..Len(mapping) |-> mapping[i].footnote_number])

\* post_id_to_footnote: a dict comprehension, the last entry of a key wins
PostIdToFootnote(mapping, post_id) ==
    LET hits == {i \in 1..Len(mapping) : mapping[i].post_id = post_id}
    IN  IF hits = {} THEN 0
        ELSE mapping[CHOOSE i \in hits : \A j \in hits : j <= i].footnote_number

\* replace_ref without its membership test: every marker becomes a number
ReplaceRef_NoLookup(tok, mapping) ==
    IF tok.kind = "ref" THEN Num(PostIdToFootnote(mapping, tok.id)) ELSE tok

\* replace_ref inside _convert_refs_to_footnotes
ReplaceRef(tok, mapping) ==
    IF tok.kind = "ref" /\ PostIdToFootnote(mapping, tok.id) # 0
    THEN Num(PostIdToFootnote(mapping, tok.id))
    ELSE tok

\* the appended reference section: heading, then one line per footnote
ReferenceList(mapping) ==
    <<Heading>> \o [i \in 1..Len(mapping) |-> Line(mapping[i])]

\* _convert_refs_to_footnotes without the "if footnote_mapping" guard
ConvertRefsToFootnotes_AlwaysAppends(report, mapping) ==
    [p \in 1..Len(report) |-> ReplaceRef(report[p], mapping)]
        \o ReferenceList(mapping)

\* LLMService._convert_refs_to_footnotes
ConvertRefsToFootnotes(report, mapping) ==
    LET processed == [p \in 1..Len(report) |-> ReplaceRef(report[p], mapping)]
    IN  IF mapping # <<>>
        THEN processed \o ReferenceList(mapping)
        ELSE processed

\* FootnoteService._extract_footnote_mapping: the membership test of its
\* first loop reads footnote_mapping, which is still empty while it runs
FootnoteServiceUniqueRefs(refs) ==
    LET footnote_mapping_so_far == <<>>
        F[n \in 0..Len(refs)] ==
            IF n = 0 THEN <<>>
            ELSE IF refs[n] \in {footnote_mapping_so_far[i].post_id :
                                   i \in DOMAIN footnote_mapping_so_far}
                 THEN F[n - 1]
                 ELSE Append(F[n - 1], refs[n])
    IN  F[Len(refs)]

FootnoteServiceExtract(report, ps) ==
    LET refs == FindRefs(report)
        unique_refs == FootnoteServiceUniqueRefs(refs)
        by_id(key) == {i \in 1..Len(ps) : ps[i].id = key}
        F[n \in 0..Len(unique_refs)] ==
            IF n = 0 THEN <<>>
            ELSE IF by_id(unique_refs[n]) # {}
                 THEN Append(F[n - 1],
                        [footnote_number |-> n, post_id |-> unique_refs[n],
                         title |-> unique_refs[n], ref |-> unique_refs[n]])
                 ELSE F[n - 1]
    IN  IF refs = <<>> THEN <<>> ELSE F[Len(unique_refs)]

\* FootnoteService._convert_refs_to_numbers
ConvertRefsToNumbers(report, mapping) ==
    [p \in 1..Len(report) |-> ReplaceRef(report[p], mapping)]

\* FootnoteService._add_references_section
AddReferencesSection(report, mapping) ==
    IF mapping = <<>> THEN report
    ELSE report \o ReferenceList(mapping)

\* the deduplicator before any item was collected
DedupIdle ==
    /\ all_content = <<>>
    /\ unique_content = <<>>
    /\ dedup_input = <<>>
    /\ dedup_runs = 0
    /\ deduper = "none"

\* the relevance filter before any item was handed over
FilterIdle ==
    /\ content_items = <<>>
    /\ judge = <<>>
    /\ batch_modes = <<>>
    /\ final_content = <<>>
    /\ filter_pc = "collecting"

NumCallers == 2      \* concurrent callers of _check_rate_limit
Callers == 1..NumCallers

\* RedditService.__init__: an empty deque and a free lock
LimiterIdle ==
    /\ clock = 0
    /\ request_timestamps = <<>>
    /\ lock_holder = 0
    /\ lock_waiters = <<>>
    /\ caller_pc = [c \in Callers |-> "idle"]
    /\ caller_now = [c \in Callers |-> 0]
    /\ wake_at = [c \in Callers |-> 0]
    /\ admitted = EmptyBag

\* the clusterer before any item was handed over
ClusterIdle ==
    /\ cluster_input = <<>>
    /\ topics = 0
    /\ assign_response = <<>>
    /\ assignments = <<>>
    /\ clusters = <<>>
    /\ cluster_pc = "collecting"

\* the orchestrator before the report was synthesized
QAIdle ==
    /\ qa_state = "SYNTHESIZING"
    /\ qa_report = <<>>
    /\ qa_metrics = <<>>
    /\ repair_response = <<>>
    /\ repair_calls = 0
    /\ repair_entries = 0
    /\ final_report = <<>>

NumStages == 3       \* pipeline stages holding an LLMService
Stages == 1..NumStages
GATE_CAPACITY == 5       \* asyncio.Semaphore(5) in main.py
PRIVATE_CAPACITY == 3    \* asyncio.Semaphore(3), a provider's own default

\* main.py has created api_semaphore; no service is constructed yet
GateIdle ==
    /\ llm_provider = [c \in Stages |-> "none"]
    /\ llm_shared = [c \in Stages |-> FALSE]
    /\ llm_pc = [c \in Stages |-> "unbuilt"]
    /\ global_permits = GATE_CAPACITY
    /\ private_permits = [c \in Stages |-> PRIVATE_CAPACITY]
    /\ loop_busy = 0

\* collection and filtering are done; synthesis is about to run
StoreIdle ==
    /\ an_pc = "synthesis"
    /\ an_report = <<>>
    /\ an_schedule_yn = FALSE
    /\ an_report_id = 0
    /\ db_reports = {}
    /\ db_links = {}
    /\ an_failed_at = "none"
    /\ an_result = <<>>

NumKeywords == 3     \* keywords given to search_with_keywords
KeywordIds == 1..NumKeywords

\* search_with_keywords has been called and has searched nothing yet
CollectIdle ==
    /\ collect_pc = "loop"
    /\ kw_i = 0
    /\ vector_i = 0
    /\ all_submissions = <<>>
    /\ all_posts = <<>>
    /\ vectors_ok = [k \in KeywordIds |-> {}]
    /\ kw_failed = {}
    /\ search_admissions = 0
    /\ search_queries = 0

\* orchestrate_analysis has not been called yet
PipelineIdle ==
    /\ pl_state = "START"
    /\ pl_trace = <<>>
    /\ pl_callback = FALSE
    /\ pl_progress = <<>>
    /\ pl_keywords = 0
    /\ pl_collected = 0

\* _filter_with_quality_check has not returned yet
BandIdle ==
    /\ to_clustering = <<>>
    /\ band_pc = "waiting"

CiteInit ==
    /\ posts = <<>>
    /\ full_report = <<>>
    /\ raw_report = <<>>
    /\ footnote_mapping = <<>>
    /\ runs = 0
    /\ service = "none"

\* every service as constructed, before any request
Init ==
    /\ CiteInit
    /\ DedupIdle
    /\ FilterIdle
    /\ LimiterIdle
    /\ ClusterIdle
    /\ QAIdle
    /\ GateIdle
    /\ StoreIdle
    /\ CollectIdle
    /\ PipelineIdle
    /\ BandIdle

\* the collector hands over one more source item
AddPost ==
    /\ runs = 0
    /\ Len(posts) < MaxPosts
    /\ \E t \in Types :
         posts' = Append(posts, [type |-> t, id |-> PlatformId(Len(posts) + 1)])
    /\ UNCHANGED <<full_report, raw_report, footnote_mapping, runs, service>>
    /\ UNCHANGED <<dedupVars, filterVars, limiterVars, clusterVars, qaVars, gateVars, storeVars, collectVars, pipelineVars, bandVars>>

\* the LLM response grows by one token
LLMWrites ==
    /\ runs = 0
    /\ Len(full_report) < MaxLen
    /\ \E tok \in LLMTokens : full_report' = Append(full_report, tok)
    /\ UNCHANGED <<posts, raw_report, footnote_mapping, runs, service>>
    /\ UNCHANGED <<dedupVars, filterVars, limiterVars, clusterVars, qaVars, gateVars, storeVars, collectVars, pipelineVars, bandVars>>

\* generate_report, lines 311-316: extract the mapping, then convert
MapCitations ==
    /\ runs < MaxRuns
    /\ service \in {"none", "llm"}
    /\ LET mapping == ExtractFootnoteMapping(full_report, posts, IndexMapping(posts))
       IN  /\ footnote_mapping' = mapping
           /\ full_report' = ConvertRefsToFootnotes(full_report, mapping)
    /\ raw_report' = full_report
    /\ runs' = runs + 1
    /\ service' = "llm"
    /\ UNCHANGED posts
    /\ UNCHANGED <<dedupVars, filterVars, limiterVars, clusterVars, qaVars, gateVars, storeVars, collectVars, pipelineVars, bandVars>>

\* FootnoteService.process_report_with_footnotes, steps 2 to 4
ProcessReportWithFootnotes ==
    /\ runs < MaxRuns
    /\ service \in {"none", "footnote"}
    /\ LET mapping == FootnoteServiceExtract(full_report, posts)
       IN  /\ footnote_mapping' = mapping
           /\ full_report' = AddReferencesSection(
                                ConvertRefsToNumbers(full_report, mapping), mapping)
    /\ raw_report' = full_report
    /\ runs' = runs + 1
    /\ service' = "footnote"
    /\ UNCHANGED posts
    /\ UNCHANGED <<dedupVars, filterVars, limiterVars, clusterVars, qaVars, gateVars, storeVars, collectVars, pipelineVars, bandVars>>

CiteNext == AddPost \/ LLMWrites \/ MapCitations \/ ProcessReportWithFootnotes

SpecCite == Init /\ [][CiteNext]_vars

-----------------------------------------------------------------------------
(* Citation Mapper: properties                                             *)

\* the marker targets of the text the latest run was given
RawRefs == FindRefs(raw_report)

\* key resolves to a supplied source item for the mapper that ran
ResolvesIn(svc, key, ps) ==
    IF svc = "footnote" THEN \E i \in 1..Len(ps) : ps[i].id = key
    ELSE Resolves(key, ps)

\* key names no supplied source item, neither by prompt label nor by id
Absent(key, ps) ==
    /\ ~Resolves(key, ps)
    /\ \A i \in 1..Len(ps) : ps[i].id # key

\* entries are exactly the distinct targets, numbered by first occurrence
FirstOccurrenceNumbering ==
    LET uniq == FirstOccurrences(RawRefs)
    IN  /\ Len(footnote_mapping) = Len(uniq)
        /\ \A n \in 1..Len(uniq) :
              /\ footnote_mapping[n].ref = uniq[n]
              /\ footnote_mapping[n].footnote_number = n

\* C1: when every marker of the text resolves to a supplied source item,
\* each distinct marker target has exactly one footnote entry, numbered by
\* its rank in first-occurrence order (A, B, A, C gives A->1, B->2, C->3).
C1_FirstOccurrenceNumbering ==
    (runs = 1 /\ \A k \in Range(RawRefs) : ResolvesIn(service, k, posts))
        => FirstOccurrenceNumbering

\* C2: after the mapper ran, every occurrence of a marker whose target
\* resolves to a supplied source item reads [n], n being the footnote
\* number of that target's entry, and no resolvable marker remains.
C2_ResolvableMarkersRewritten ==
    (runs = 1 /\ service = "llm") =>
        /\ \A p \in 1..Len(raw_report) :
              (raw_report[p].kind = "ref" /\ Resolves(raw_report[p].id, posts)) =>
                 \E e \in Range(footnote_mapping) :
                     /\ e.ref = raw_report[p].id
                     /\ full_report[p] = Num(e.footnote_number)
        /\ \A p \in 1..Len(full_report) :
              ~(full_report[p].kind = "ref" /\ Resolves(full_report[p].id, posts))

\* C3: every occurrence of a marker whose target is absent from the
\* supplied source items is left as it was, and no footnote entry is
\* created for that target.
C3_DanglingPreserved ==
    (runs = 1 /\ service = "llm") =>
        \A p \in 1..Len(raw_report) :
            (raw_report[p].kind = "ref" /\ Absent(raw_report[p].id, posts)) =>
                /\ Len(full_report) >= p
                /\ full_report[p] = raw_report[p]
                /\ \A e \in Range(footnote_mapping) : e.ref # raw_report[p].id

\* the distinct marker targets of the text that resolve, in order of first
\* occurrence
ResolvableTargets ==
    SelectSeq(FirstOccurrences(RawRefs), LAMBDA k : Resolves(k, posts))

\* C27: for a text that mixes resolvable and unresolvable markers in any
\* order the footnote list is numbered 1..n without gaps in list order, n
\* being the number of distinct resolvable targets; an unresolvable marker
\* consumes no footnote number.
C27_ContiguousNumbers ==
    (runs = 1 /\ service = "llm") =>
        /\ Len(footnote_mapping) = Len(ResolvableTargets)
        /\ \A i \in 1..Len(footnote_mapping) :
              footnote_mapping[i].footnote_number = i

\* a run that met a dangling marker next to a resolved one
C3_Witness ==
    /\ runs = 1 /\ service = "llm"
    /\ footnote_mapping # <<>>
    /\ \E p \in 1..Len(raw_report) :
          /\ raw_report[p].kind = "ref" /\ Absent(raw_report[p].id, posts)
          /\ full_report[p] = raw_report[p]
    /\ \E p \in 1..Len(raw_report) : full_report[p].kind = "num"

\* C4: a text without any marker comes back identical, with no reference
\* section appended, and the footnote list is empty.
C4_NoMarkersNoOp ==
    (runs >= 1 /\ service = "llm" /\ RawRefs = <<>>) =>
        /\ full_report = raw_report
        /\ footnote_mapping = <<>>

\* a run on a non-empty text without markers, with source items supplied
C4_Witness ==
    /\ runs = 1 /\ service = "llm"
    /\ raw_report # <<>> /\ RawRefs = <<>>
    /\ posts # <<>>
    /\ full_report = raw_report

\* C5: a second run of the mapper on the text produced by the first run,
\* with the same source items, leaves that text unchanged.
C5_Idempotent ==
    (runs = 2 /\ service = "llm") => full_report = raw_report


-----------------------------------------------------------------------------
(* Deduplicator                                                            *)

MaxContent == 4    \* collected items per run
MaxDedupRuns == 2  \* dedup runs on one collection

\* item ids; "" stands for a missing or empty id (item.get('id') is falsy)
ItemIds == {"", "a", "b"}
ItemScores == {1, 2}
ContentItems == [id : ItemIds, score : ItemScores]

\* _remove_duplicates where a later occurrence replaces the kept one
RemoveDuplicates_LastWins(content) ==
    LET F[i \in 0..Len(content)] ==
            IF i = 0 THEN <<>>
            ELSE IF content[i].id = "" THEN F[i - 1]
                 ELSE IF content[i].id \in {F[i - 1][k].id : k \in DOMAIN F[i - 1]}
                      THEN [k \in DOMAIN F[i - 1] |->
                              IF F[i - 1][k].id = content[i].id THEN content[i]
                              ELSE F[i - 1][k]]
                      ELSE Append(F[i - 1], content[i])
    IN  F[Len(content)]

\* OrchestratorService._remove_duplicates
RemoveDuplicates(content) ==
    LET F[i \in 0..Len(content)] ==
            IF i = 0 THEN <<>>
            ELSE IF content[i].id # ""
                    /\ content[i].id \notin {F[i - 1][k].id : k \in DOMAIN F[i - 1]}
                 THEN Append(F[i - 1], content[i])
                 ELSE F[i - 1]
    IN  F[Len(content)]

\* _deduplicate_posts without its seen_ids test
DeduplicatePosts_KeepsAll(ps) ==
    SortDesc(ps, [i \in 1..Len(ps) |-> ps[i].score])

\* AnalysisService._deduplicate_posts
DeduplicatePosts(ps) ==
    LET F[i \in 0..Len(ps)] ==
            IF i = 0 THEN <<>>
            ELSE IF ps[i].id \notin {F[i - 1][k].id : k \in DOMAIN F[i - 1]}
                 THEN Append(F[i - 1], ps[i])
                 ELSE F[i - 1]
        unique_posts == F[Len(ps)]
    IN  SortDesc(unique_posts, [i \in 1..Len(unique_posts) |-> unique_posts[i].score])

\* the collector returns one more item
Collect ==
    /\ dedup_runs = 0
    /\ Len(all_content) < MaxContent
    /\ \E item \in ContentItems : all_content' = Append(all_content, item)
    /\ UNCHANGED <<unique_content, dedup_input, dedup_runs, deduper>>
    /\ UNCHANGED <<citeVars, filterVars, limiterVars, clusterVars, qaVars, gateVars, storeVars, collectVars, pipelineVars, bandVars>>

\* the list a dedup run is given: the collection, or the previous result
DedupArgument == IF dedup_runs = 0 THEN all_content ELSE unique_content

\* _collect_data_with_quality_check, line 172
RunRemoveDuplicates ==
    /\ dedup_runs < MaxDedupRuns
    /\ deduper \in {"none", "orchestrator"}
    /\ unique_content' = RemoveDuplicates(DedupArgument)
    /\ dedup_input' = DedupArgument
    /\ dedup_runs' = dedup_runs + 1
    /\ deduper' = "orchestrator"
    /\ UNCHANGED all_content
    /\ UNCHANGED <<citeVars, filterVars, limiterVars, clusterVars, qaVars, gateVars, storeVars, collectVars, pipelineVars, bandVars>>

\* AnalysisService.analyze, line 214
RunDeduplicatePosts ==
    /\ dedup_runs < MaxDedupRuns
    /\ deduper \in {"none", "analysis"}
    /\ unique_content' = DeduplicatePosts(DedupArgument)
    /\ dedup_input' = DedupArgument
    /\ dedup_runs' = dedup_runs + 1
    /\ deduper' = "analysis"
    /\ UNCHANGED all_content
    /\ UNCHANGED <<citeVars, filterVars, limiterVars, clusterVars, qaVars, gateVars, storeVars, collectVars, pipelineVars, bandVars>>

DedupNext == Collect \/ RunRemoveDuplicates \/ RunDeduplicatePosts

SpecDedup == Init /\ [][DedupNext]_vars

-----------------------------------------------------------------------------
(* Deduplicator: properties                                                *)

\* indexes of the first occurrence of each id of L
FirstIndexes(L) == {i \in 1..Len(L) : \A j \in 1..(i - 1) : L[j].id # L[i].id}

\* the items of L at the indexes I, in the order of L
SubseqAt(L, I) ==
    LET F[i \in 0..Len(L)] ==
            IF i = 0 THEN <<>>
            ELSE IF i \in I THEN Append(F[i - 1], L[i]) ELSE F[i - 1]
    IN  F[Len(L)]

NoRepeatedId(L) == \A i, j \in 1..Len(L) : L[i].id = L[j].id => i = j

\* C6: dedupe(dedupe(L)) = dedupe(L), and dedupe(L) holds no two items
\* with the same id.
C6_DedupIdempotentUnique ==
    /\ dedup_runs >= 1 => NoRepeatedId(unique_content)
    /\ dedup_runs = 2 => unique_content = dedup_input

\* a second run on the result of a first run that removed a duplicate
C6_Witness ==
    /\ dedup_runs = 2
    /\ ~NoRepeatedId(all_content)
    /\ Len(unique_content) >= 2
    /\ Len(unique_content) < Len(all_content)

\* the items of L that carry an id
WithId(L) == SelectSeq(L, LAMBDA item : item.id # "")

\* C7 as stated: dedupe(L) is exactly the subsequence of L made of the
\* first occurrence of each id, in the order of those occurrences (read
\* over the items that carry an id).
C7_FirstSeenOrder ==
    dedup_runs = 1 =>
        WithId(unique_content) =
            SubseqAt(all_content,
                     {i \in FirstIndexes(all_content) : all_content[i].id # ""})

\* C7 amended: dedupe(L) holds exactly the first occurrence of each id of
\* L, unmerged.  _remove_duplicates returns them in first-seen order and
\* skips items without an id; _deduplicate_posts returns them by
\* descending score, items of equal score in first-seen order.
C7_FirstOccurrenceWins ==
    LET L == all_content
        firsts == FirstIndexes(L)
        pos(item) == CHOOSE i \in firsts : L[i].id = item.id
    IN  /\ (dedup_runs = 1 /\ deduper = "orchestrator") =>
              unique_content = SubseqAt(L, {i \in firsts : L[i].id # ""})
        /\ (dedup_runs = 1 /\ deduper = "analysis") =>
              /\ Len(unique_content) = Cardinality(firsts)
              /\ Range(unique_content) = {L[i] : i \in firsts}
              /\ \A p, q \in 1..Len(unique_content) :
                    p < q =>
                      \/ unique_content[p].score > unique_content[q].score
                      \/ /\ unique_content[p].score = unique_content[q].score
                         /\ pos(unique_content[p]) < pos(unique_content[q])

\* a run on a list whose repeated id carries different scores
C7_Witness ==
    /\ dedup_runs = 1
    /\ \E i, j \in 1..Len(all_content) :
          /\ i < j
          /\ all_content[i].id = all_content[j].id
          /\ all_content[i].id # ""
          /\ all_content[i].score # all_content[j].score
          /\ all_content[i] \in Range(unique_content)
    /\ Len(unique_content) >= 2

-----------------------------------------------------------------------------
(* Relevance Filter.  Relevance scores are in tenths: 60 is 6.0.           *)

RELEVANCE_THRESHOLD == 60
MIN_HIGH_QUALITY_POSTS == 10
MAX_CONTENT_ITEMS == 50
BatchSize == 10
DefaultScore == 50       \* 5.0, the score of an item the judge did not score
BackfillScore == 55      \* 5.5, the score given to a backfilled item

MaxItems == 12           \* items handed to the filter
DupUpTo == 2             \* positions 2..DupUpTo may repeat the id of item 1

\* what the judge may return for an item: 3.0 or 9.0
JudgeScores == {30, 90}
BatchModes == {"ok", "raise", "unparsable"}

\* raw platform score of the i-th collected item: a fixed spread with ties
RawScoreOf(i) == (7 * i) % 5

Min(a, b) == IF a <= b THEN a ELSE b

\* batches = [content_items[i:i + batch_size] ...]: the batch of position i
BatchOf(i) == ((i - 1) \div BatchSize) + 1
NumBatches(n) == (n + BatchSize - 1) \div BatchSize

\* content_batch.index(item) + 1: the first position of the batch that
\* holds an equal item
ContentIndex(items, i) ==
    CHOOSE j \in 1..i :
        /\ BatchOf(j) = BatchOf(i)
        /\ items[j] = items[i]
        /\ \A k \in 1..(j - 1) : ~(BatchOf(k) = BatchOf(i) /\ items[k] = items[i])

\* _score_content_relevance, for the item at position i
ScoredItem(items, jd, modes, i) ==
    LET mode == modes[BatchOf(i)]
    IN  [id |-> items[i].id, score |-> items[i].score,
         relevance_score |->
             IF mode = "ok" THEN jd[ContentIndex(items, i)] ELSE DefaultScore,
         relevance_reason |->
             IF mode = "ok" THEN "judged"
             ELSE IF mode = "raise" THEN "llm_failed" ELSE "score_failed"]

\* the item a backfill adds: item['relevance_score'] = 5.5 and its reason
Backfilled(item) ==
    [id |-> item.id, score |-> item.score,
     relevance_score |-> BackfillScore, relevance_reason |-> "backfill"]

\* _ensure_minimum_quality_content that skips the sort by raw score
EnsureMinimumQualityContent_Unsorted(filtered_content, original_content) ==
    IF Len(filtered_content) >= MIN_HIGH_QUALITY_POSTS THEN filtered_content
    ELSE
      LET included_ids == {filtered_content[i].id : i \in DOMAIN filtered_content}
          additional == SelectSeq(original_content,
                                  LAMBDA item : item.id \notin included_ids)
          needed_count == MIN_HIGH_QUALITY_POSTS - Len(filtered_content)
          selected == SubSeq(additional, 1, Min(needed_count, Len(additional)))
      IN  filtered_content \o [i \in 1..Len(selected) |-> Backfilled(selected[i])]

\* RelevanceFilteringService._ensure_minimum_quality_content
EnsureMinimumQualityContent(filtered_content, original_content) ==
    IF Len(filtered_content) >= MIN_HIGH_QUALITY_POSTS THEN filtered_content
    ELSE
      LET included_ids == {filtered_content[i].id : i \in DOMAIN filtered_content}
          additional == SelectSeq(original_content,
                                  LAMBDA item : item.id \notin included_ids)
          sorted == SortDesc(additional,
                             [i \in 1..Len(additional) |-> additional[i].score])
          needed_count == MIN_HIGH_QUALITY_POSTS - Len(filtered_content)
          selected == SubSeq(sorted, 1, Min(needed_count, Len(sorted)))
      IN  filtered_content \o [i \in 1..Len(selected) |-> Backfilled(selected[i])]

\* filter_relevant_content without the minimum-content step
FilterRelevantContent_NoBackfill(items, jd, modes) ==
    IF items = <<>> THEN <<>>
    ELSE
      LET limited ==
              IF Len(items) > MAX_CONTENT_ITEMS
              THEN SubSeq(SortDesc(items, [i \in 1..Len(items) |-> items[i].score]),
                          1, MAX_CONTENT_ITEMS)
              ELSE items
          scored == [i \in 1..Len(limited) |-> ScoredItem(limited, jd, modes, i)]
          all_filtered == SelectSeq(scored,
                              LAMBDA item : item.relevance_score >= RELEVANCE_THRESHOLD)
          by_relevance == SortDesc(all_filtered,
                              [i \in 1..Len(all_filtered) |->
                                  all_filtered[i].relevance_score])
      IN  by_relevance

\* RelevanceFilteringService.filter_relevant_content
FilterRelevantContent(items, jd, modes) ==
    IF items = <<>> THEN <<>>
    ELSE
      LET limited ==
              IF Len(items) > MAX_CONTENT_ITEMS
              THEN SubSeq(SortDesc(items, [i \in 1..Len(items) |-> items[i].score]),
                          1, MAX_CONTENT_ITEMS)
              ELSE items
          scored == [i \in 1..Len(limited) |-> ScoredItem(limited, jd, modes, i)]
          all_filtered == SelectSeq(scored,
                              LAMBDA item : item.relevance_score >= RELEVANCE_THRESHOLD)
          by_relevance == SortDesc(all_filtered,
                              [i \in 1..Len(all_filtered) |->
                                  all_filtered[i].relevance_score])
      IN  EnsureMinimumQualityContent(by_relevance, limited)

\* one more collected item reaches the filter, with the score the judge
\* is going to give it
AddItem ==
    /\ filter_pc = "collecting"
    /\ Len(content_items) < MaxItems
    /\ \E dup \in BOOLEAN, fit \in JudgeScores :
         LET pos == Len(content_items) + 1
         IN  /\ dup => pos \in 2..DupUpTo
             /\ content_items' = Append(content_items,
                     [id |-> IF dup THEN 1 ELSE pos, score |-> RawScoreOf(pos)])
             /\ judge' = Append(judge, fit)
    /\ UNCHANGED <<batch_modes, final_content, filter_pc>>
    /\ UNCHANGED <<citeVars, dedupVars, limiterVars, clusterVars, qaVars, gateVars, storeVars, collectVars, pipelineVars, bandVars>>

\* filter_relevant_content runs; each batch is scored, or its judge call
\* raises, or its response does not parse
Filter ==
    /\ filter_pc = "collecting"
    /\ \E modes \in [1..NumBatches(Len(content_items)) -> BatchModes] :
         /\ batch_modes' = modes
         /\ final_content' = FilterRelevantContent(content_items, judge, modes)
    /\ filter_pc' = "done"
    /\ UNCHANGED <<content_items, judge>>
    /\ UNCHANGED <<citeVars, dedupVars, limiterVars, clusterVars, qaVars, gateVars, storeVars, collectVars, pipelineVars, bandVars>>

HIGH_QUALITY == 75       \* relevance_score >= 7.5
MEDIUM_QUALITY == 60     \* 6 <= relevance_score < 7.5
MIN_HIGH_QUALITY == 5    \* if len(high_quality) < 5
BAND_TARGET == 10        \* medium_quality[:10-len(high_quality)]

\* OrchestratorService._filter_with_quality_check, after the filter call
FilterWithQualityCheck(filtered) ==
    LET high_quality == SelectSeq(filtered,
                            LAMBDA item : item.relevance_score >= HIGH_QUALITY)
        medium_quality == SelectSeq(filtered,
                            LAMBDA item : /\ MEDIUM_QUALITY <= item.relevance_score
                                          /\ item.relevance_score < HIGH_QUALITY)
    IN  IF Len(high_quality) < MIN_HIGH_QUALITY
        THEN high_quality \o SubSeq(medium_quality, 1,
                                    Min(BAND_TARGET - Len(high_quality),
                                        Len(medium_quality)))
        ELSE high_quality

\* the orchestrator's filter stage sorts the filter's list into its
\* quality bands and returns what goes on to clustering
QualityBands ==
    /\ filter_pc = "done"
    /\ band_pc = "waiting"
    /\ to_clustering' = FilterWithQualityCheck(final_content)
    /\ band_pc' = "passed"
    /\ UNCHANGED <<citeVars, dedupVars, filterVars, limiterVars, clusterVars, qaVars, gateVars, storeVars, collectVars, pipelineVars>>

FilterNext == AddItem \/ Filter \/ QualityBands

SpecFilter == Init /\ [][FilterNext]_vars

-----------------------------------------------------------------------------
(* Relevance Filter: properties                                            *)

DistinctIds(items) == \A i, j \in 1..Len(items) : items[i].id = items[j].id => i = j

\* relevance the filter computes for position i
RelevanceAt(i) ==
    IF batch_modes[BatchOf(i)] = "ok" THEN judge[i] ELSE DefaultScore

\* positions whose item passes the threshold, and those rejected
Passers == {i \in 1..Len(content_items) : RelevanceAt(i) >= RELEVANCE_THRESHOLD}
Rejects == (1..Len(content_items)) \ Passers

\* C8 as stated: an input with at least 10 items yields at least 10 items,
\* whatever the judge returns.
C8_Floor ==
    (filter_pc = "done" /\ Len(content_items) >= MIN_HIGH_QUALITY_POSTS)
        => Len(final_content) >= MIN_HIGH_QUALITY_POSTS

\* C8 amended: an input with at least 10 items whose ids are pairwise
\* distinct yields at least 10 items, whatever the judge returns.
C8_FloorDistinctIds ==
    (/\ filter_pc = "done"
     /\ Len(content_items) >= MIN_HIGH_QUALITY_POSTS
     /\ DistinctIds(content_items))
        => Len(final_content) >= MIN_HIGH_QUALITY_POSTS

\* no item passes (one batch even failed) and the floor is met by backfill
C8_Witness ==
    /\ filter_pc = "done"
    /\ Len(content_items) > MIN_HIGH_QUALITY_POSTS
    /\ DistinctIds(content_items)
    /\ Passers = {}
    /\ \E b \in DOMAIN batch_modes : batch_modes[b] = "raise"
    /\ Len(final_content) = MIN_HIGH_QUALITY_POSTS

\* the result is the passers followed by the 10-k rejects of highest raw
\* score, in descending raw-score order
PassersThenTopRejects ==
    LET k == Cardinality(Passers)
        n == Len(final_content)
    IN  /\ n = MIN_HIGH_QUALITY_POSTS
        /\ \A p \in 1..k : \E i \in Passers : final_content[p].id = content_items[i].id
        /\ \A p \in (k + 1)..n :
              \E i \in Rejects :
                  /\ final_content[p].id = content_items[i].id
                  /\ final_content[p].score = content_items[i].score
        /\ \A p, q \in (k + 1)..n :
              p < q => final_content[p].score >= final_content[q].score
        /\ \A i \in Rejects :
              (\A p \in (k + 1)..n : final_content[p].id # content_items[i].id)
                 => \A p \in (k + 1)..n : final_content[p].score >= content_items[i].score

\* C9 as stated: with k < 10 passers and at least 10 input items the
\* result is exactly 10 items: the k passers plus the 10-k rejected items
\* of highest raw score, in descending raw-score order.
C9_BackfillSelection ==
    (/\ filter_pc = "done"
     /\ Len(content_items) >= MIN_HIGH_QUALITY_POSTS
     /\ Cardinality(Passers) < MIN_HIGH_QUALITY_POSTS)
        => PassersThenTopRejects

\* C9 amended: the same, for an input whose ids are pairwise distinct.
C9_BackfillSelectionDistinctIds ==
    (/\ filter_pc = "done"
     /\ Len(content_items) >= MIN_HIGH_QUALITY_POSTS
     /\ DistinctIds(content_items)
     /\ Cardinality(Passers) < MIN_HIGH_QUALITY_POSTS)
        => PassersThenTopRejects

\* 12 items, 3 scored 9.0 and 9 scored 3.0: 3 passers and 7 backfilled
C9_Witness ==
    /\ filter_pc = "done"
    /\ Len(content_items) = 12
    /\ DistinctIds(content_items)
    /\ \A b \in DOMAIN batch_modes : batch_modes[b] = "ok"
    /\ Cardinality(Passers) = 3
    /\ Len(final_content) = 10
    /\ Cardinality({p \in 1..10 : final_content[p].relevance_reason = "backfill"}) = 7

\* the reasons _score_content_relevance attaches: the judge's own, and the
\* two defaults of a failed call and of a missing score
ScoringReasons == {"judged", "llm_failed", "score_failed"}

\* positions of the result the backfill added: those after the passers
BackfilledPositions == (Cardinality(Passers) + 1)..Len(final_content)

\* C18: every item the minimum-content backfill adds carries a relevance
\* score above RELEVANCE_THRESHOLD (6.0), never below it, and a reason
\* that is none of the judge's or the default reasons.
C18_BackfillTagging ==
    filter_pc = "done" =>
        \A p \in BackfilledPositions :
            /\ final_content[p].relevance_score > RELEVANCE_THRESHOLD
            /\ final_content[p].relevance_reason \notin ScoringReasons

\* C29: whenever the relevance filter returns at least 10 items to the
\* orchestrator's filter stage, at least 10 items go on to clustering, and
\* no item the filter backfilled is discarded by the quality bands.
C29_OrchestratorKeepsFloor ==
    (band_pc = "passed" /\ Len(final_content) >= MIN_HIGH_QUALITY_POSTS) =>
        /\ Len(to_clustering) >= MIN_HIGH_QUALITY_POSTS
        /\ \A p \in BackfilledPositions :
              \E q \in 1..Len(to_clustering) : to_clustering[q] = final_content[p]

\* positions of the input whose batch the judge failed on
FailedBatchPositions ==
    {i \in 1..Len(content_items) : batch_modes[BatchOf(i)] # "ok"}

\* C19: when the judge call of a batch raises or returns unparsable
\* output, every item of that batch gets relevance score 5.0 and is kept:
\* it is present in the filter's result.
C19_FailedBatchKept ==
    filter_pc = "done" =>
        \A i \in FailedBatchPositions :
            \E p \in 1..Len(final_content) :
                /\ final_content[p].id = content_items[i].id
                /\ final_content[p].relevance_score = DefaultScore

-----------------------------------------------------------------------------
(* Rate limiter: RedditService._check_rate_limit.  Time is in seconds.     *)

WINDOW == 60              \* timedelta(minutes=1)
REQUEST_THRESHOLD == 59   \* len(self.request_timestamps) >= 59
DEQUE_MAXLEN == 60        \* deque(maxlen=60)
PLATFORM_CAP == 60        \* Reddit API: 60 requests/minute

MaxClock == 121           \* the clock stops here
MaxOverrun == 1           \* asyncio.sleep may end this much late

\* while self.request_timestamps and
\*       (now - self.request_timestamps[0]) > timedelta(minutes=1): popleft()
RECURSIVE PruneOld(_, _)
PruneOld(q, now) ==
    IF q # <<>> /\ now - q[1] > WINDOW THEN PruneOld(Tail(q), now) ELSE q

\* deque(maxlen=60).append: a full deque drops its oldest entry
DequeAppend(q, x) ==
    IF Len(q) >= DEQUE_MAXLEN THEN Append(Tail(q), x) ELSE Append(q, x)

\* wait_time = (oldest_request + timedelta(minutes=1) - now)
WaitTime(q, now) == q[1] + WINDOW - now

\* the call returns at the current time, having recorded stamp
Admit(stamp) == admitted (+) SetToBag({[stamp |-> stamp, at |-> clock]})

\* a caller calls _check_rate_limit and waits for rate_limit_lock
Call(c) ==
    /\ caller_pc[c] = "idle"
    /\ caller_pc' = [caller_pc EXCEPT ![c] = "queued"]
    /\ lock_waiters' = Append(lock_waiters, c)
    /\ UNCHANGED <<clock, request_timestamps, lock_holder, caller_now,
                   wake_at, admitted>>
    /\ UNCHANGED <<citeVars, dedupVars, filterVars, clusterVars, qaVars, gateVars, storeVars, collectVars, pipelineVars, bandVars>>

\* the first waiter gets the lock, reads the clock, drops the old
\* timestamps and either records its call and returns, or goes to sleep
\* inside the lock
Enter(c) ==
    /\ lock_holder = 0
    /\ lock_waiters # <<>>
    /\ Head(lock_waiters) = c
    /\ lock_waiters' = Tail(lock_waiters)
    /\ LET now == clock
           kept == PruneOld(request_timestamps, now)
       IN  /\ caller_now' = [caller_now EXCEPT ![c] = now]
           /\ IF Len(kept) >= REQUEST_THRESHOLD /\ WaitTime(kept, now) > 0
              THEN /\ request_timestamps' = kept
                   /\ lock_holder' = c
                   /\ caller_pc' = [caller_pc EXCEPT ![c] = "sleeping"]
                   /\ wake_at' = [wake_at EXCEPT ![c] = now + WaitTime(kept, now)]
                   /\ UNCHANGED admitted
              ELSE /\ request_timestamps' = DequeAppend(kept, now)
                   /\ admitted' = Admit(now)
                   /\ caller_pc' = [caller_pc EXCEPT ![c] = "idle"]
                   /\ UNCHANGED <<lock_holder, wake_at>>
    /\ UNCHANGED clock
    /\ UNCHANGED <<citeVars, dedupVars, filterVars, clusterVars, qaVars, gateVars, storeVars, collectVars, pipelineVars, bandVars>>

\* the end of the sleep if leaving the function did not release the lock
Wake_KeepsLock(c) ==
    /\ caller_pc[c] = "sleeping"
    /\ clock >= wake_at[c]
    /\ request_timestamps' = DequeAppend(request_timestamps, caller_now[c])
    /\ admitted' = Admit(caller_now[c])
    /\ caller_pc' = [caller_pc EXCEPT ![c] = "idle"]
    /\ UNCHANGED <<clock, lock_holder, lock_waiters, caller_now, wake_at>>
    /\ UNCHANGED <<citeVars, dedupVars, filterVars, clusterVars, qaVars, gateVars, storeVars, collectVars, pipelineVars, bandVars>>

\* asyncio.sleep is over: the sleeper records the time it read before
\* sleeping, releases the lock and returns
Wake(c) ==
    /\ caller_pc[c] = "sleeping"
    /\ clock >= wake_at[c]
    /\ request_timestamps' = DequeAppend(request_timestamps, caller_now[c])
    /\ admitted' = Admit(caller_now[c])
    /\ lock_holder' = 0
    /\ caller_pc' = [caller_pc EXCEPT ![c] = "idle"]
    /\ UNCHANGED <<clock, lock_waiters, caller_now, wake_at>>
    /\ UNCHANGED <<citeVars, dedupVars, filterVars, clusterVars, qaVars, gateVars, storeVars, collectVars, pipelineVars, bandVars>>

\* time passes while a caller sleeps, until its sleep ends or a little
\* longer; calls that do not sleep take no time
Tick ==
    /\ lock_holder # 0
    /\ caller_pc[lock_holder] = "sleeping"
    /\ clock < wake_at[lock_holder]
    /\ \E late \in 0..MaxOverrun :
         /\ wake_at[lock_holder] + late <= MaxClock
         /\ clock' = wake_at[lock_holder] + late
    /\ UNCHANGED <<request_timestamps, lock_holder, lock_waiters, caller_pc,
                   caller_now, wake_at, admitted>>
    /\ UNCHANGED <<citeVars, dedupVars, filterVars, clusterVars, qaVars, gateVars, storeVars, collectVars, pipelineVars, bandVars>>

LimiterNext ==
    \/ \E c \in Callers : Call(c)
    \/ \E c \in Callers : Enter(c)
    \/ \E c \in Callers : Wake(c)
    \/ Tick

SpecLimiter == Init /\ [][LimiterNext]_vars

\* the last time at which a new call is made in the runs checked for
\* liveness: a caller that sleeps from then on wakes within the clock range
LastCallClock == MaxClock - WINDOW

\* a call made while the clock range leaves room for its wait
LiveCall(c) ==
    /\ clock <= LastCallClock
    /\ Call(c)

LimiterLiveNext ==
    \/ \E c \in Callers : LiveCall(c)
    \/ \E c \in Callers : Enter(c)
    \/ \E c \in Callers : Wake(c)
    \/ Tick

\* time advances, a sleep ends, and asyncio.Lock hands the free lock to its
\* first waiter
SpecLimiterLive ==
    /\ Init
    /\ [][LimiterLiveNext]_vars
    /\ WF_vars(\E c \in Callers : Enter(c))
    /\ WF_vars(\E c \in Callers : Wake(c))
    /\ WF_vars(Tick)

-----------------------------------------------------------------------------
(* Rate limiter: properties                                                *)

RECURSIVE CountIn(_, _)
CountIn(B, S) ==
    IF S = {} THEN 0
    ELSE LET e == CHOOSE x \in S : TRUE
         IN  CopiesIn(e, B) + CountIn(B, S \ {e})

\* number of calls that returned at a time in from..(from + WINDOW - 1)
AdmittedInWindow(from) ==
    CountIn(admitted, {e \in BagToSet(admitted) :
                          e.at >= from /\ e.at < from + WINDOW})

\* C10: in any 60-second window the limiter admits at most 60 calls,
\* whatever the number of callers and their interleaving.
C10_AtMostCapPerWindow ==
    \A from \in 0..clock : AdmittedInWindow(from) <= PLATFORM_CAP

\* calls that returned less than one window before the time now
RecentlyAdmitted(now) ==
    CountIn(admitted, {e \in BagToSet(admitted) : now - e.at < WINDOW})

\* C11: once N = 60 calls have been admitted, the next call is not
\* admitted before a full window has passed since the oldest of them: a
\* call returns only when fewer than 60 earlier calls returned less than
\* one window ago.
C11_NextCallWaitsFullWindow ==
    [][admitted' # admitted => RecentlyAdmitted(clock') < PLATFORM_CAP]_vars

\* C30: with time advancing and a fair scheduler every caller of
\* _check_rate_limit is eventually admitted and returns, also a caller
\* queued on the lock while another sleeps inside it; the lock is always
\* released again.
C30_LimiterLiveness ==
    /\ \A c \in Callers : (caller_pc[c] # "idle") ~> (caller_pc[c] = "idle")
    /\ (lock_holder # 0) ~> (lock_holder = 0)

\* a caller slept inside the lock and returned, and a call that entered
\* after that has returned as well
C30_Witness ==
    /\ \A c \in Callers : caller_pc[c] = "idle"
    /\ lock_holder = 0
    /\ \E e, f \in BagToSet(admitted) : e.at > e.stamp /\ f.stamp >= e.at

\* C26: the timestamp a call records is the time at which the call is
\* admitted; a caller that had to wait records a time that is not earlier
\* than the end of its wait.
C26_StampIsAdmissionTime ==
    \A e \in BagToSet(admitted) : e.stamp >= e.at

-----------------------------------------------------------------------------
(* Topic Clusterer: TopicClusteringService                                 *)

MIN_CLUSTER_SIZE == 3
MAX_CLUSTERS == 7
MAX_ITEMS_PER_BATCH == 20
MinTopics == 3           \* if len(topics) < 3: the fallback topics are added
FallbackTopics == 2      \* the two fixed fallback topics

MaxClusterItems == 4     \* items handed to the clusterer
MaxParsedTopics == 3     \* topics parsed from the extraction response

\* one element of the classifier's JSON array: an integer, or something
\* else (a string, a float, null)
IntValue(v) == [isint |-> TRUE, val |-> v]
NonInteger == [isint |-> FALSE, val |-> 0]
RawValues == {IntValue(v) : v \in {-2, -1, 0, 1, MAX_CLUSTERS}} \cup {NonInteger}

\* the classifier's response for a batch of n items: the call raises, the
\* text is not a JSON list, or it is a list of any length up to n + 1
RawLists(n) == UNION {[1..len -> RawValues] : len \in 0..(n + 1)}
Responses(n) ==
    {[kind |-> "raise", vals |-> <<>>], [kind |-> "malformed", vals |-> <<>>]}
        \cup {[kind |-> "list", vals |-> l] : l \in RawLists(n)}

\* _extract_topics: fewer than 3 parsed topics get the two fallback topics,
\* and at most MAX_CLUSTERS are kept
ExtractTopics(parsed) ==
    Min(IF parsed < MinTopics THEN parsed + FallbackTopics ELSE parsed,
        MAX_CLUSTERS)

\* TopicClusteringService._parse_assignments_response
ParseAssignmentsResponse(response, expected_length) ==
    IF response.kind # "list" THEN [i \in 1..expected_length |-> 0]
    ELSE
      LET vals == response.vals
          sized == IF Len(vals) < expected_length
                   THEN vals \o [i \in 1..(expected_length - Len(vals)) |-> IntValue(0)]
                   ELSE SubSeq(vals, 1, expected_length)
      IN  [i \in 1..expected_length |->
              IF sized[i].isint /\ sized[i].val >= -1 THEN sized[i].val ELSE 0]

\* range(0, len(content_items), batch_size): the batch of position i, the
\* number of batches, and the positions of batch b
TopicBatchOf(i) == ((i - 1) \div MAX_ITEMS_PER_BATCH) + 1
TopicBatches(n) == (n + MAX_ITEMS_PER_BATCH - 1) \div MAX_ITEMS_PER_BATCH
TopicBatchLen(n, b) == Min(MAX_ITEMS_PER_BATCH, n - (b - 1) * MAX_ITEMS_PER_BATCH)

\* the topic index the item at position i was given
AssignedTopic(asg, i) ==
    asg[TopicBatchOf(i)][i - (TopicBatchOf(i) - 1) * MAX_ITEMS_PER_BATCH]

\* TopicClusteringService._assign_content_to_topics: one cluster per topic,
\* holding the items whose index is 0 <= topic_idx < len(clusters)
AssignContentToTopics(items, ntopics, asg) ==
    [t \in 1..ntopics |->
        [topic |-> [name |-> "topic", idx |-> t - 1],
         items |-> SelectSeq(items, LAMBDA item : AssignedTopic(asg, item) = t - 1)]]

RECURSIVE Flatten(_)
Flatten(ss) == IF ss = <<>> THEN <<>> ELSE Head(ss) \o Flatten(Tail(ss))

\* _optimize_clusters that discards the small clusters instead of pooling
\* their items
OptimizeClusters_DropSmall(cs) ==
    LET large_clusters == SelectSeq(cs, LAMBDA c : Len(c.items) >= MIN_CLUSTER_SIZE)
    IN  SortDesc(large_clusters,
                 [i \in 1..Len(large_clusters) |-> Len(large_clusters[i].items)])

\* TopicClusteringService._optimize_clusters
OptimizeClusters(cs) ==
    LET large_clusters == SelectSeq(cs, LAMBDA c : Len(c.items) >= MIN_CLUSTER_SIZE)
        small_clusters == SelectSeq(cs, LAMBDA c : Len(c.items) < MIN_CLUSTER_SIZE
                                                    /\ c.items # <<>>)
        orphan_items == Flatten([i \in 1..Len(small_clusters) |-> small_clusters[i].items])
        with_misc == IF small_clusters # <<>> /\ orphan_items # <<>>
                     THEN Append(large_clusters,
                                 [topic |-> [name |-> "misc", idx |-> 0],
                                  items |-> orphan_items])
                     ELSE large_clusters
    IN  SortDesc(with_misc, [i \in 1..Len(with_misc) |-> Len(with_misc[i].items)])

\* one more filtered item reaches the clusterer; the item at position i
\* is the number i
AddClusterItem ==
    /\ cluster_pc = "collecting"
    /\ Len(cluster_input) < MaxClusterItems
    /\ cluster_input' = Append(cluster_input, Len(cluster_input) + 1)
    /\ UNCHANGED <<topics, assign_response, assignments, clusters, cluster_pc>>
    /\ UNCHANGED <<citeVars, dedupVars, filterVars, limiterVars, qaVars, gateVars, storeVars, collectVars, pipelineVars, bandVars>>

\* cluster_content on no items returns no clusters and calls no LLM
ClusterNothing ==
    /\ cluster_pc = "collecting"
    /\ cluster_input = <<>>
    /\ cluster_pc' = "done"
    /\ UNCHANGED <<cluster_input, topics, assign_response, assignments, clusters>>
    /\ UNCHANGED <<citeVars, dedupVars, filterVars, limiterVars, qaVars, gateVars, storeVars, collectVars, pipelineVars, bandVars>>

\* cluster_content: topics are extracted, every batch is classified and
\* the clusters are optimized; a classifier call that raises fails the run
ClusterContent ==
    /\ cluster_pc = "collecting"
    /\ cluster_input # <<>>
    /\ LET n == Len(cluster_input)
       IN  \E parsed \in 0..MaxParsedTopics,
              resp \in [1..TopicBatches(n) -> Responses(n)] :
             LET asg == [b \in 1..TopicBatches(n) |->
                            ParseAssignmentsResponse(resp[b], TopicBatchLen(n, b))]
                 ok == \A b \in 1..TopicBatches(n) : resp[b].kind # "raise"
             IN  /\ topics' = ExtractTopics(parsed)
                 /\ assign_response' = resp
                 /\ assignments' = IF ok THEN asg ELSE <<>>
                 /\ clusters' = IF ok
                                THEN OptimizeClusters(
                                         AssignContentToTopics(cluster_input,
                                                               ExtractTopics(parsed), asg))
                                ELSE <<>>
                 /\ cluster_pc' = IF ok THEN "done" ELSE "failed"
    /\ UNCHANGED cluster_input
    /\ UNCHANGED <<citeVars, dedupVars, filterVars, limiterVars, qaVars, gateVars, storeVars, collectVars, pipelineVars, bandVars>>

ClusterNext == AddClusterItem \/ ClusterNothing \/ ClusterContent

SpecCluster == Init /\ [][ClusterNext]_vars

-----------------------------------------------------------------------------
(* Topic Clusterer: properties                                             *)

\* number of returned clusters whose items list holds the item
ClustersHolding(item) ==
    Cardinality({c \in 1..Len(clusters) :
                    \E k \in 1..Len(clusters[c].items) : clusters[c].items[k] = item})

\* C12: after optimization every input item is in exactly one returned
\* cluster, whatever the classifier answered.
C12_ClusterCompleteness ==
    cluster_pc = "done" =>
        \A i \in 1..Len(cluster_input) : ClustersHolding(cluster_input[i]) = 1


\* what the claim gives the item at position i of a batch for the
\* classifier's response: the i-th entry when it is an integer from -1 up
\* to the number of topics less one, else 0
NormalisedEntry(response, i) ==
    IF response.kind = "list" /\ i <= Len(response.vals)
       /\ response.vals[i].isint
       /\ response.vals[i].val >= -1 /\ response.vals[i].val < topics
    THEN response.vals[i].val
    ELSE 0

\* C20: the assignment used for a batch of n items has n entries; a short
\* response is padded with 0, a long one truncated, and an entry that is
\* not an integer, is below -1 or is at least the number of topics is 0.
C20_AssignmentNormalised ==
    cluster_pc = "done" =>
        \A b \in 1..Len(assignments) :
            /\ Len(assignments[b]) = TopicBatchLen(Len(cluster_input), b)
            /\ \A i \in 1..Len(assignments[b]) :
                  assignments[b][i] = NormalisedEntry(assign_response[b], i)

\* the clusters _optimize_clusters was given: those of
\* _assign_content_to_topics for the assignments of the run
InputClusters == AssignContentToTopics(cluster_input, topics, assignments)

\* all items of a list of clusters, in cluster order
ItemsOf(cs) == Flatten([c \in 1..Len(cs) |-> cs[c].items])

SmallInputClusters ==
    {c \in 1..Len(InputClusters) :
        /\ InputClusters[c].items # <<>>
        /\ Len(InputClusters[c].items) < MIN_CLUSTER_SIZE}

MiscClusters == {c \in 1..Len(clusters) : clusters[c].topic.name = "misc"}

-----------------------------------------------------------------------------
(* Quality-Assurance Orchestrator: OrchestratorService._quality_assurance. *)
(* A text is a sequence of sentences, a sentence a sequence of words; dot  *)
(* tells whether the text ends with the '.' that _remove_section_duplicates*)
(* appends.  Scores are in hundredths.                                     *)

CONSISTENCY_THRESHOLD == 70    \* consistency_score < 0.7

\* the sections in the order of the sections dict
SectionNames ==
    <<"summary", "topic_analysis", "sentiment_analysis", "insights", "conclusion">>
Sections == Range(SectionNames)

Text(sentences, dot) == [sentences |-> sentences, dot |-> dot]
\* content.strip() is empty
Blank(text) == text.sentences = <<>> /\ ~text.dot

\* section texts the synthesizer or the repair call may write
SentenceA == <<"x", "y">>
SentenceB == <<"x", "w">>
SentenceC == <<"z">>
EdgeTexts == {<<>>, <<SentenceA>>, <<SentenceB>>, <<SentenceC>>,
              <<SentenceA, SentenceA>>}
InnerTexts == {<<>>, <<SentenceA>>}
SectionTexts(name) ==
    IF name \in {"summary", "conclusion"} THEN EdgeTexts ELSE InnerTexts
SynthesizedSections ==
    {f \in [Sections -> EdgeTexts] : \A name \in Sections : f[name] \in SectionTexts(name)}
\* the repair call raises, or answers with sections of its own
RepairTexts == {<<>>, <<SentenceC>>}
RepairResponses ==
    {[kind |-> "raise", sections |-> [name \in Sections |-> <<>>]]}
        \cup {[kind |-> "text", sections |-> f] : f \in [Sections -> RepairTexts]}

\* the sentences of the sections before section k, in order
RECURSIVE SentencesBefore(_, _)
SentencesBefore(sections, k) ==
    IF k <= 1 THEN <<>>
    ELSE SentencesBefore(sections, k - 1) \o sections[SectionNames[k - 1]].sentences

\* OrchestratorService._remove_section_duplicates: a sentence is kept only
\* where it occurs first, and every section ends up as '. '.join(...) + '.'
RemoveSectionDuplicates(sections) ==
    [name \in Sections |->
        LET k == CHOOSE i \in 1..Len(SectionNames) : SectionNames[i] = name
            used == Range(SentencesBefore(sections, k))
        IN  Text(FirstOccurrences(SelectSeq(sections[name].sentences,
                                            LAMBDA s : s \notin used)),
                 TRUE)]

\* text.split(): the last word of a sentence carries its '.', and a text
\* that is only the appended '.' is the one word '.'
WordsOf(text) ==
    IF text.sentences = <<>> THEN (IF text.dot THEN {"."} ELSE {})
    ELSE UNION {{IF w = Len(text.sentences[i]) /\ (i < Len(text.sentences) \/ text.dot)
                 THEN text.sentences[i][w] \o "."
                 ELSE text.sentences[i][w] : w \in 1..Len(text.sentences[i])}
                : i \in 1..Len(text.sentences)}

\* OrchestratorService._check_consistency, in hundredths
CheckConsistency(sections) ==
    LET summary_words == WordsOf(sections["summary"])
        conclusion_words == WordsOf(sections["conclusion"])
        overlap == Cardinality(summary_words \cap conclusion_words)
        smaller == Min(Cardinality(summary_words), Cardinality(conclusion_words))
    IN  IF summary_words # {} /\ conclusion_words # {}
        THEN Min((overlap * 200) \div smaller, 100)
        ELSE 100

\* OrchestratorService._check_completeness
CheckCompleteness(sections) ==
    LET missing_sections == SelectSeq(SectionNames, LAMBDA name : Blank(sections[name]))
    IN  [is_complete |-> missing_sections = <<>>, missing |-> missing_sections]

\* OrchestratorService._format_final_report: the non-blank sections under
\* their titles, in order
FormatFinalReport(sections) ==
    LET present == SelectSeq(SectionNames, LAMBDA name : ~Blank(sections[name]))
    IN  [i \in 1..Len(present) |-> [section |-> present[i], text |-> sections[present[i]]]]

\* OrchestratorService._extract_summary: the text under the summary title
ExtractSummary(text) ==
    IF \E i \in 1..Len(text) : text[i].section = "summary"
    THEN (CHOOSE e \in Range(text) : e.section = "summary").text
    ELSE Text(<<>>, FALSE)

\* _improve_report whose LLM call is not inside try/except
ImproveReport_NoCatch(rep, missing_sections, response) ==
    IF response.kind = "raise"
    THEN [raised |-> TRUE, report |-> rep]
    ELSE
      LET merged == [name \in Sections |->
                        IF name \in Range(missing_sections)
                           /\ response.sections[name] # <<>>
                        THEN Text(response.sections[name], FALSE)
                        ELSE rep.sections[name]]
      IN  [raised |-> FALSE,
           report |-> [sections |-> merged, full_report |-> FormatFinalReport(merged)]]

\* OrchestratorService._improve_report: a failed LLM call is logged and the
\* report is returned as it was
ImproveReport(rep, missing_sections, response) ==
    IF response.kind = "raise"
    THEN [raised |-> FALSE, report |-> rep]
    ELSE
      LET merged == [name \in Sections |->
                        IF name \in Range(missing_sections)
                           /\ response.sections[name] # <<>>
                        THEN Text(response.sections[name], FALSE)
                        ELSE rep.sections[name]]
      IN  [raised |-> FALSE,
           report |-> [sections |-> merged, full_report |-> FormatFinalReport(merged)]]

\* the dict _quality_assurance returns
QAResult(text, metrics) ==
    [summary |-> ExtractSummary(text),
     full_report |-> text,
     quality_metrics |-> metrics]

\* the state after the repair pass: _quality_assurance checks again
AfterRepair_ChecksAgain == "QUALITY_CHECK"

\* the state after the repair pass: _quality_assurance returns
AfterRepair == "DONE"

\* _generate_quality_report returns the synthesized report and its sections
Synthesize ==
    /\ qa_state = "SYNTHESIZING"
    /\ \E sections \in SynthesizedSections :
         LET raw == [name \in Sections |-> Text(sections[name], FALSE)]
         IN  qa_report' = [sections |-> raw, full_report |-> FormatFinalReport(raw)]
    /\ qa_state' = "QUALITY_CHECK"
    /\ UNCHANGED <<qa_metrics, repair_response, repair_calls, repair_entries,
                   final_report>>
    /\ UNCHANGED <<citeVars, dedupVars, filterVars, limiterVars, clusterVars, gateVars, storeVars, collectVars, pipelineVars, bandVars>>

\* _quality_assurance up to its decision: duplicates are removed, the
\* consistency and completeness of the cleaned sections are computed, and
\* either the repair pass starts or the cleaned report is returned
QualityCheck ==
    /\ qa_state = "QUALITY_CHECK"
    /\ LET cleaned_sections == RemoveSectionDuplicates(qa_report.sections)
           consistency_score == CheckConsistency(cleaned_sections)
           completeness == CheckCompleteness(cleaned_sections)
           metrics == [consistency_score |-> consistency_score,
                       completeness |-> completeness]
       IN  /\ qa_metrics' = metrics
           /\ IF consistency_score < CONSISTENCY_THRESHOLD \/ ~completeness.is_complete
              THEN /\ qa_state' = "REPAIRING"
                   /\ repair_entries' = repair_entries + 1
                   /\ UNCHANGED final_report
              ELSE /\ qa_state' = "DONE"
                   /\ final_report' = QAResult(FormatFinalReport(cleaned_sections), metrics)
                   /\ UNCHANGED repair_entries
    /\ UNCHANGED <<qa_report, repair_response, repair_calls>>
    /\ UNCHANGED <<citeVars, dedupVars, filterVars, limiterVars, clusterVars, gateVars, storeVars, collectVars, pipelineVars, bandVars>>

\* the repair pass: _improve_report asks the LLM once, merges what it got
\* and _quality_assurance returns the improved report with the metrics
\* computed before the repair
Repair ==
    /\ qa_state = "REPAIRING"
    /\ \E response \in RepairResponses :
         LET improved == ImproveReport(qa_report, qa_metrics.completeness.missing, response)
         IN  /\ repair_response' = response
             /\ qa_report' = improved.report
             /\ IF improved.raised
                THEN /\ qa_state' = "RAISED"
                     /\ UNCHANGED final_report
                ELSE /\ qa_state' = AfterRepair
                     /\ final_report' = QAResult(improved.report.full_report, qa_metrics)
    /\ repair_calls' = repair_calls + 1
    /\ UNCHANGED <<qa_metrics, repair_entries>>
    /\ UNCHANGED <<citeVars, dedupVars, filterVars, limiterVars, clusterVars, gateVars, storeVars, collectVars, pipelineVars, bandVars>>

QANext == Synthesize \/ QualityCheck \/ Repair

SpecQA == Init /\ [][QANext]_vars

-----------------------------------------------------------------------------
(* Quality-Assurance Orchestrator: properties                              *)

\* C13: REPAIRING is entered at most once and the repair call is issued at
\* most once in a run, and the only state after REPAIRING is DONE.
C13_BoundedRepair ==
    /\ [](repair_entries <= 1 /\ repair_calls <= 1)
    /\ [][qa_state = "REPAIRING" => qa_state' = "DONE"]_vars

\* a run that went through the repair pass and is done
C13_Witness ==
    /\ qa_state = "DONE"
    /\ repair_entries = 1
    /\ repair_calls = 1
    /\ repair_response.kind = "text"

\* C14: the quality-assurance step never raises, and when it is done it
\* has returned a report that holds every section the synthesized report
\* had, also when the repair call failed.
C14_AlwaysYieldsReport ==
    /\ qa_state # "RAISED"
    /\ qa_state = "DONE" =>
         /\ final_report # <<>>
         /\ \A name \in Sections :
               ~Blank(qa_report.sections[name]) =>
                   \E i \in 1..Len(final_report.full_report) :
                       final_report.full_report[i].section = name

\* the repair call failed and the report was returned all the same
C14_Witness ==
    /\ qa_state = "DONE"
    /\ repair_calls = 1
    /\ repair_response.kind = "raise"
    /\ final_report # <<>>
    /\ final_report.full_report # <<>>

\* the required sections that are empty in the report at hand
EmptySections == {name \in Sections : Blank(qa_report.sections[name])}

\* C22: QUALITY_CHECK moves to REPAIRING exactly when a required section
\* of the synthesized report is empty (completeness then says incomplete
\* and lists the section as missing) or the consistency score is below
\* 0.7; otherwise it moves to DONE and no repair call is made.
C22_RepairTrigger ==
    [][qa_state = "QUALITY_CHECK" =>
         /\ qa_state' = "REPAIRING" <=>
                (EmptySections # {}
                 \/ qa_metrics'.consistency_score < CONSISTENCY_THRESHOLD)
         /\ qa_metrics'.completeness.is_complete <=> EmptySections = {}
         /\ Range(qa_metrics'.completeness.missing) = EmptySections
         /\ qa_state' # "REPAIRING" => qa_state' = "DONE" /\ repair_calls' = 0]_vars

\* C23: after the repair pass every required section that was empty in
\* the synthesized report, and for which the repair response holds
\* non-empty text, holds that text in the final report.
C23_RepairMerge ==
    [][qa_state = "REPAIRING" /\ repair_response'.kind = "text" =>
         \A name \in EmptySections :
             repair_response'.sections[name] # <<>> =>
                 /\ qa_report'.sections[name] = Text(repair_response'.sections[name], FALSE)
                 /\ \E i \in 1..Len(final_report'.full_report) :
                       /\ final_report'.full_report[i].section = name
                       /\ final_report'.full_report[i].text =
                              Text(repair_response'.sections[name], FALSE)]_vars

\* C24: when a repair pass ran, the consistency score, the completeness
\* flag and the missing sections returned with the final report are those
\* of the repaired report.
C24_MetricsOfRepairedReport ==
    qa_state = "DONE" /\ repair_calls = 1 =>
        /\ final_report.quality_metrics.consistency_score =
               CheckConsistency(qa_report.sections)
        /\ final_report.quality_metrics.completeness =
               CheckCompleteness(qa_report.sections)

-----------------------------------------------------------------------------
(* LLM concurrency gate: main.api_semaphore, LLMService._initialize_provider*)
(* and the providers' generate calls.  All stages run as coroutines of one  *)
(* event loop; a provider's HTTP call is synchronous and holds the loop.    *)

Providers == {"openai", "gemini"}

\* the permits of the semaphore the stage's OpenAIProvider uses:
\* api_semaphore or asyncio.Semaphore(3)
PermitsOf(c) == IF llm_shared[c] THEN global_permits ELSE private_permits[c]

\* asyncio.Semaphore has the attributes _value and _waiters only
SemaphoreAttributes == {"_value", "_waiters"}

\* the attributes the log line inside the gate reads:
\* self.api_semaphore._value and self.api_semaphore._initial_value
LoggedAttributes == {"_value", "_initial_value"}

\* a stage constructs its LLMService; LLM_PROVIDER picks the provider, and
\* the stage passes the global semaphore on or not
BuildService(c) ==
    /\ llm_pc[c] = "unbuilt"
    /\ \E provider \in Providers, shared \in BOOLEAN :
         /\ llm_provider' = [llm_provider EXCEPT ![c] = provider]
         /\ llm_shared' = [llm_shared EXCEPT ![c] = shared]
    /\ llm_pc' = [llm_pc EXCEPT ![c] = "idle"]
    /\ UNCHANGED <<global_permits, private_permits, loop_busy>>
    /\ UNCHANGED <<citeVars, dedupVars, filterVars, limiterVars, clusterVars, qaVars, storeVars, collectVars, pipelineVars, bandVars>>

\* OpenAIProvider.generate_with_messages: the stage enters the semaphore
\* (or waits when no permit is free); the log line inside reads an
\* attribute the semaphore does not have, the AttributeError leaves the
\* async with, which gives the permit back, and reaches the caller.  With
\* the attribute at hand the blocking API call would start.
GenerateOpenAI(c) ==
    /\ llm_pc[c] = "idle"
    /\ llm_provider[c] = "openai"
    /\ loop_busy = 0
    /\ IF PermitsOf(c) = 0
       THEN /\ llm_pc' = [llm_pc EXCEPT ![c] = "waiting"]
            /\ UNCHANGED <<global_permits, private_permits, loop_busy>>
       ELSE IF LoggedAttributes \subseteq SemaphoreAttributes
       THEN /\ llm_pc' = [llm_pc EXCEPT ![c] = "in_call"]
            /\ loop_busy' = c
            /\ global_permits' = IF llm_shared[c] THEN global_permits - 1
                                 ELSE global_permits
            /\ private_permits' = IF llm_shared[c] THEN private_permits
                                  ELSE [private_permits EXCEPT ![c] = @ - 1]
       ELSE /\ llm_pc' = [llm_pc EXCEPT ![c] = "gate_error"]
            /\ UNCHANGED <<global_permits, private_permits, loop_busy>>
    /\ UNCHANGED <<llm_provider, llm_shared>>
    /\ UNCHANGED <<citeVars, dedupVars, filterVars, limiterVars, clusterVars, qaVars, storeVars, collectVars, pipelineVars, bandVars>>

\* GeminiProvider.generate: no semaphore; requests.post starts and holds
\* the event loop until it returns
GenerateGemini(c) ==
    /\ llm_pc[c] = "idle"
    /\ llm_provider[c] = "gemini"
    /\ loop_busy = 0
    /\ llm_pc' = [llm_pc EXCEPT ![c] = "in_call"]
    /\ loop_busy' = c
    /\ UNCHANGED <<llm_provider, llm_shared, global_permits, private_permits>>
    /\ UNCHANGED <<citeVars, dedupVars, filterVars, limiterVars, clusterVars, qaVars, storeVars, collectVars, pipelineVars, bandVars>>

\* the blocking HTTP call returns a response or raises
CallReturns(c) ==
    /\ llm_pc[c] = "in_call"
    /\ loop_busy = c
    /\ \E outcome \in {"served", "api_error"} :
         llm_pc' = [llm_pc EXCEPT ![c] = outcome]
    /\ loop_busy' = 0
    /\ global_permits' = IF llm_provider[c] = "openai" /\ llm_shared[c]
                         THEN global_permits + 1 ELSE global_permits
    /\ private_permits' = IF llm_provider[c] = "openai" /\ ~llm_shared[c]
                          THEN [private_permits EXCEPT ![c] = @ + 1]
                          ELSE private_permits
    /\ UNCHANGED <<llm_provider, llm_shared>>
    /\ UNCHANGED <<citeVars, dedupVars, filterVars, limiterVars, clusterVars, qaVars, storeVars, collectVars, pipelineVars, bandVars>>

GateNext ==
    \/ \E c \in Stages : BuildService(c)
    \/ \E c \in Stages : GenerateOpenAI(c)
    \/ \E c \in Stages : GenerateGemini(c)
    \/ \E c \in Stages : CallReturns(c)

SpecGate == Init /\ [][GateNext]_vars

-----------------------------------------------------------------------------
(* LLM concurrency gate: properties                                        *)

InFlight == Cardinality({c \in Stages : llm_pc[c] = "in_call"})

\* C15: at most 5 LLM calls are in flight in the process, whichever
\* provider is configured, and no call fails at the gate: a call that
\* reaches the gate waits if need be and is then sent to the provider.
C15_GlobalGate ==
    /\ InFlight <= GATE_CAPACITY
    /\ \A c \in Stages : llm_pc[c] # "gate_error"

-----------------------------------------------------------------------------
(* Report persistence: AnalysisService.process_search_request from the     *)
(* synthesis on, and DatabaseService.save_report / save_report_links /      *)
(* create_schedule.                                                         *)

MaxFootnotes == 2     \* footnote links of a report

Summaries == {"s1", "s2"}
FullReports == {"r1", "r2", "r3"}

\* what the insert of a storage call does: rows come back, no rows come
\* back, or the client raises
InsertOutcomes == {"rows", "no_rows", "raise"}

\* every DatabaseService method raises SupabaseException unless the insert
\* returned rows
StorageRaises(outcome) == outcome # "rows"

\* llm_service.generate_report succeeded
GenerateReport ==
    /\ an_pc = "synthesis"
    /\ \E summary \in Summaries, text \in FullReports,
          footnotes \in 0..MaxFootnotes, schedule_yn \in BOOLEAN :
         /\ an_report' = [summary |-> summary, full_report |-> text,
                          footnote_mapping |-> footnotes]
         /\ an_schedule_yn' = schedule_yn
    /\ an_pc' = "save_report"
    /\ UNCHANGED <<an_report_id, db_reports, db_links, an_failed_at, an_result>>
    /\ UNCHANGED <<citeVars, dedupVars, filterVars, limiterVars, clusterVars, qaVars, gateVars, collectVars, pipelineVars, bandVars>>

\* report_id = await self.db_service.save_report(report_create); an
\* exception reaches the except of process_search_request, which logs and
\* raises it again
SaveReport ==
    /\ an_pc = "save_report"
    /\ \E outcome \in InsertOutcomes :
         IF StorageRaises(outcome)
         THEN /\ an_pc' = "raised"
              /\ an_failed_at' = "save_report"
              /\ UNCHANGED <<an_report_id, db_reports>>
         ELSE /\ an_pc' = "save_links"
              /\ an_report_id' = 1
              /\ db_reports' = db_reports \cup {an_report.full_report}
              /\ UNCHANGED an_failed_at
    /\ UNCHANGED <<an_report, an_schedule_yn, db_links, an_result>>
    /\ UNCHANGED <<citeVars, dedupVars, filterVars, limiterVars, clusterVars, qaVars, gateVars, collectVars, pipelineVars, bandVars>>

\* if footnote_mapping: await self.db_service.save_report_links(...)
SaveReportLinks ==
    /\ an_pc = "save_links"
    /\ IF an_report.footnote_mapping = 0
       THEN /\ an_pc' = "schedule"
            /\ UNCHANGED <<db_links, an_failed_at>>
       ELSE \E outcome \in InsertOutcomes :
              IF StorageRaises(outcome)
              THEN /\ an_pc' = "raised"
                   /\ an_failed_at' = "save_report_links"
                   /\ UNCHANGED db_links
              ELSE /\ an_pc' = "schedule"
                   /\ db_links' = db_links \cup (1..an_report.footnote_mapping)
                   /\ UNCHANGED an_failed_at
    /\ UNCHANGED <<an_report, an_schedule_yn, an_report_id, db_reports, an_result>>
    /\ UNCHANGED <<citeVars, dedupVars, filterVars, limiterVars, clusterVars, qaVars, gateVars, collectVars, pipelineVars, bandVars>>

\* if request.schedule_yn == "Y": create_schedule; then the result dict is
\* returned
ScheduleAndReturn ==
    /\ an_pc = "schedule"
    /\ \E outcome \in InsertOutcomes :
         IF an_schedule_yn /\ StorageRaises(outcome)
         THEN /\ an_pc' = "raised"
              /\ an_failed_at' = "create_schedule"
              /\ UNCHANGED an_result
         ELSE /\ an_pc' = "returned"
              /\ an_result' = [report_id |-> an_report_id,
                               summary |-> an_report.summary,
                               full_report |-> an_report.full_report]
              /\ UNCHANGED an_failed_at
    /\ UNCHANGED <<an_report, an_schedule_yn, an_report_id, db_reports, db_links>>
    /\ UNCHANGED <<citeVars, dedupVars, filterVars, limiterVars, clusterVars, qaVars, gateVars, collectVars, pipelineVars, bandVars>>

StoreNext ==
    \/ GenerateReport
    \/ SaveReport
    \/ SaveReportLinks
    \/ ScheduleAndReturn

SpecStore == Init /\ [][StoreNext]_vars

-----------------------------------------------------------------------------
(* Report persistence: properties                                          *)

\* C16: when saving the report or its footnote links fails after the
\* synthesis succeeded, the request does not end in an exception: the
\* report that was computed is returned to the caller.
C16_StorageFailureKeepsResult ==
    an_failed_at \in {"save_report", "save_report_links"} =>
        /\ an_pc # "raised"
        /\ an_pc = "returned" =>
             /\ an_result.summary = an_report.summary
             /\ an_result.full_report = an_report.full_report

-----------------------------------------------------------------------------
(* Reddit collector: RedditService.search_with_keywords and search_posts   *)

NumVectors == 3      \* zeitgeist, underground, vanguard
VectorLimit == 2     \* submissions one vector query yields

\* the submissions Reddit holds for vector v of keyword k; neighbouring
\* vectors of a keyword share a submission
VectorResults(k, v) ==
    [j \in 1..VectorLimit |-> 10 * k + ((v + j - 2) % NumVectors) + 1]

\* a vector query yields its submissions, raises at once, or raises while
\* the lazy listing is being read
QueryOutcomes == {"ok", "raise", "raise_midway"}

\* _check_rate_limit is called once by search_with_keywords and once by
\* search_posts for every keyword
ChecksPerKeyword == 2

\* the loop of search_with_keywords goes on after a keyword whose search
\* raised, with the exception propagated instead
AfterKeywordFailure_Propagate == "raised"

\* the loop of search_with_keywords goes on after a keyword whose search
\* raised (except ...: continue)
AfterKeywordFailure == "loop"

\* search_with_keywords begins keyword kw_i + 1: its own rate-limit check,
\* then search_posts with its rate-limit check; anything raising here
\* fails the keyword
StartKeyword ==
    /\ collect_pc = "loop"
    /\ kw_i < NumKeywords
    /\ \E raised \in BOOLEAN :
         IF raised
         THEN /\ collect_pc' = AfterKeywordFailure
              /\ kw_i' = kw_i + 1
              /\ kw_failed' = kw_failed \cup {kw_i + 1}
              /\ \E passed \in 0..ChecksPerKeyword :
                    search_admissions' = search_admissions + passed
         ELSE /\ collect_pc' = "vectors"
              /\ search_admissions' = search_admissions + ChecksPerKeyword
              /\ UNCHANGED <<kw_i, kw_failed>>
    /\ vector_i' = 0
    /\ all_submissions' = <<>>
    /\ UNCHANGED <<all_posts, vectors_ok, search_queries>>
    /\ UNCHANGED <<citeVars, dedupVars, filterVars, limiterVars, clusterVars, qaVars, gateVars, storeVars, pipelineVars, bandVars>>

\* one pass of the vector loop of _search: the submissions are added only
\* after the whole listing was read; an exception is logged and the loop
\* goes on.  A query that raises at once is not counted as received.
VectorQuery ==
    /\ collect_pc = "vectors"
    /\ vector_i < NumVectors
    /\ \E outcome \in QueryOutcomes :
         /\ IF outcome = "ok"
            THEN /\ all_submissions' =
                       all_submissions \o VectorResults(kw_i + 1, vector_i + 1)
                 /\ vectors_ok' = [vectors_ok EXCEPT ![kw_i + 1] = @ \cup {vector_i + 1}]
            ELSE UNCHANGED <<all_submissions, vectors_ok>>
         /\ search_queries' = IF outcome = "raise" THEN search_queries
                              ELSE search_queries + 1
    /\ vector_i' = vector_i + 1
    /\ UNCHANGED <<collect_pc, kw_i, all_posts, kw_failed, search_admissions>>
    /\ UNCHANGED <<citeVars, dedupVars, filterVars, limiterVars, clusterVars, qaVars, gateVars, storeVars, pipelineVars, bandVars>>

\* _search returns; _process_submission_batch turns the submissions into
\* posts, and search_with_keywords extends all_posts with them.  A failure
\* becomes RedditAPIException in search_posts and fails the keyword.
ProcessBatch ==
    /\ collect_pc = "vectors"
    /\ vector_i = NumVectors
    /\ \E raised \in BOOLEAN :
         IF raised
         THEN /\ collect_pc' = AfterKeywordFailure
              /\ kw_failed' = kw_failed \cup {kw_i + 1}
              /\ UNCHANGED all_posts
         ELSE /\ collect_pc' = "loop"
              /\ all_posts' = all_posts \o all_submissions
              /\ UNCHANGED kw_failed
    /\ kw_i' = kw_i + 1
    /\ UNCHANGED <<vector_i, all_submissions, vectors_ok, search_admissions,
                   search_queries>>
    /\ UNCHANGED <<citeVars, dedupVars, filterVars, limiterVars, clusterVars, qaVars, gateVars, storeVars, pipelineVars, bandVars>>

\* the keyword loop is over: return all_posts
ReturnPosts ==
    /\ collect_pc = "loop"
    /\ kw_i = NumKeywords
    /\ collect_pc' = "returned"
    /\ UNCHANGED <<kw_i, vector_i, all_submissions, all_posts, vectors_ok,
                   kw_failed, search_admissions, search_queries>>
    /\ UNCHANGED <<citeVars, dedupVars, filterVars, limiterVars, clusterVars, qaVars, gateVars, storeVars, pipelineVars, bandVars>>

CollectNext ==
    \/ StartKeyword
    \/ VectorQuery
    \/ ProcessBatch
    \/ ReturnPosts

SpecCollect == Init /\ [][CollectNext]_vars

-----------------------------------------------------------------------------
(* Reddit collector: properties                                            *)

\* the items of the vectors of keyword k that succeeded
SucceededItems(k) ==
    UNION {Range(VectorResults(k, v)) : v \in vectors_ok[k]}

\* C17: a vector whose query fails is skipped and the keyword's result is
\* the union of the items of its vectors that succeeded; a keyword whose
\* search fails entirely contributes no items and raises no exception, so
\* the items of every other keyword are returned.
C17_CollectorDegradation ==
    /\ collect_pc # "raised"
    /\ collect_pc = "returned" =>
         Range(all_posts) = UNION {SucceededItems(k) : k \in KeywordIds \ kw_failed}

C17_Witness ==
    /\ collect_pc = "returned"
    /\ kw_failed # {}
    /\ \E k \in KeywordIds \ kw_failed :
         vectors_ok[k] # {} /\ vectors_ok[k] # 1..NumVectors
    /\ all_posts # <<>>

\* C28: the number of search queries sent to the platform never exceeds
\* the number of admissions the limiter recorded: each of the three vector
\* queries of a keyword is admitted on its own.
C28_OneAdmissionPerQuery ==
    search_queries <= search_admissions

-----------------------------------------------------------------------------
(* Analysis pipeline: OrchestratorService.orchestrate_analysis, with the   *)
(* citation mapping inside LLMService.generate_report and the repair pass   *)
(* inside _quality_assurance.                                               *)

MaxExpanded == 4         \* keywords expand_keywords returns
MAX_KEYWORDS == 10       \* keywords[:10]

\* the percentage orchestrate_analysis reports when the run enters a state;
\* 0 where it makes no call of progress_callback
ProgressPercent(state) ==
    CASE state = "KEYWORDS" -> 10
      [] state = "COLLECTING" -> 20
      [] state = "FILTERING" -> 40
      [] state = "CLUSTERING" -> 55
      [] state = "SYNTHESIZING" -> 70
      [] state = "QUALITY_CHECK" -> 85
      [] state = "DONE" -> 100
      [] OTHER -> 0

\* the progress calls after the run entered a state
Notified(state) ==
    IF pl_callback /\ ProgressPercent(state) > 0
    THEN Append(pl_progress, [state |-> state, percent |-> ProgressPercent(state)])
    ELSE pl_progress

\* the run enters a state
EnterState(state) ==
    /\ pl_state' = state
    /\ pl_trace' = Append(pl_trace, state)
    /\ pl_progress' = Notified(state)

\* the state after the cluster step, had the report been left out
AfterClustering_SkipsSynthesis == "QUALITY_CHECK"

\* the state after the cluster step: the report is generated
AfterClustering == "SYNTHESIZING"

\* orchestrate_analysis is called, with or without a progress callback,
\* and begins with the keyword expansion
StartRun ==
    /\ pl_state = "START"
    /\ \E given \in BOOLEAN :
         /\ pl_callback' = given
         /\ pl_state' = "KEYWORDS"
         /\ pl_trace' = <<"KEYWORDS">>
         /\ pl_progress' = IF given
                           THEN <<[state |-> "KEYWORDS",
                                   percent |-> ProgressPercent("KEYWORDS")]>>
                           ELSE <<>>
    /\ UNCHANGED <<pl_keywords, pl_collected>>
    /\ UNCHANGED <<citeVars, dedupVars, filterVars, limiterVars, clusterVars, qaVars, gateVars, storeVars, collectVars, bandVars>>

\* expand_keywords returned; the collection begins
EnterCollecting ==
    /\ pl_state = "KEYWORDS"
    /\ \E n \in 1..MaxExpanded : pl_keywords' = n
    /\ EnterState("COLLECTING")
    /\ UNCHANGED <<pl_callback, pl_collected>>
    /\ UNCHANGED <<citeVars, dedupVars, filterVars, limiterVars, clusterVars, qaVars, gateVars, storeVars, collectVars, bandVars>>

\* _collect_data_with_quality_check: one keyword of keywords[:10] is
\* reported and collected
CollectKeyword ==
    /\ pl_state = "COLLECTING"
    /\ pl_collected < Min(pl_keywords, MAX_KEYWORDS)
    /\ pl_progress' =
          IF pl_callback
          THEN Append(pl_progress,
                      [state |-> "COLLECTING",
                       percent |-> 20 + (pl_collected * 15)
                                           \div Min(pl_keywords, MAX_KEYWORDS)])
          ELSE pl_progress
    /\ pl_collected' = pl_collected + 1
    /\ UNCHANGED <<pl_state, pl_trace, pl_callback, pl_keywords>>
    /\ UNCHANGED <<citeVars, dedupVars, filterVars, limiterVars, clusterVars, qaVars, gateVars, storeVars, collectVars, bandVars>>

\* the collection returned; _filter_with_quality_check begins
EnterFiltering ==
    /\ pl_state = "COLLECTING"
    /\ pl_collected = Min(pl_keywords, MAX_KEYWORDS)
    /\ EnterState("FILTERING")
    /\ UNCHANGED <<pl_callback, pl_keywords, pl_collected>>
    /\ UNCHANGED <<citeVars, dedupVars, filterVars, limiterVars, clusterVars, qaVars, gateVars, storeVars, collectVars, bandVars>>

\* the filter returned; _cluster_with_quality_check begins
EnterClustering ==
    /\ pl_state = "FILTERING"
    /\ EnterState("CLUSTERING")
    /\ UNCHANGED <<pl_callback, pl_keywords, pl_collected>>
    /\ UNCHANGED <<citeVars, dedupVars, filterVars, limiterVars, clusterVars, qaVars, gateVars, storeVars, collectVars, bandVars>>

\* the clusterer returned; _generate_quality_report begins
EnterSynthesizing ==
    /\ pl_state = "CLUSTERING"
    /\ EnterState(AfterClustering)
    /\ UNCHANGED <<pl_callback, pl_keywords, pl_collected>>
    /\ UNCHANGED <<citeVars, dedupVars, filterVars, limiterVars, clusterVars, qaVars, gateVars, storeVars, collectVars, bandVars>>

\* generate_report: the report text came back and the footnotes are
\* extracted and the markers rewritten
EnterCitationMapping ==
    /\ pl_state = "SYNTHESIZING"
    /\ EnterState("CITATION_MAPPING")
    /\ UNCHANGED <<pl_callback, pl_keywords, pl_collected>>
    /\ UNCHANGED <<citeVars, dedupVars, filterVars, limiterVars, clusterVars, qaVars, gateVars, storeVars, collectVars, bandVars>>

\* _generate_quality_report returned; _quality_assurance begins
EnterQualityCheck ==
    /\ pl_state = "CITATION_MAPPING"
    /\ EnterState("QUALITY_CHECK")
    /\ UNCHANGED <<pl_callback, pl_keywords, pl_collected>>
    /\ UNCHANGED <<citeVars, dedupVars, filterVars, limiterVars, clusterVars, qaVars, gateVars, storeVars, collectVars, bandVars>>

\* _quality_assurance found the report wanting and calls _improve_report
EnterRepairing ==
    /\ pl_state = "QUALITY_CHECK"
    /\ EnterState("REPAIRING")
    /\ UNCHANGED <<pl_callback, pl_keywords, pl_collected>>
    /\ UNCHANGED <<citeVars, dedupVars, filterVars, limiterVars, clusterVars, qaVars, gateVars, storeVars, collectVars, bandVars>>

\* _quality_assurance returned, with or without a repair pass
Finish ==
    /\ pl_state \in {"QUALITY_CHECK", "REPAIRING"}
    /\ EnterState("DONE")
    /\ UNCHANGED <<pl_callback, pl_keywords, pl_collected>>
    /\ UNCHANGED <<citeVars, dedupVars, filterVars, limiterVars, clusterVars, qaVars, gateVars, storeVars, collectVars, bandVars>>

\* a step raises: orchestrate_analysis logs and raises again.  The repair
\* pass catches its own failures.
StageFails ==
    /\ pl_state \in {"KEYWORDS", "COLLECTING", "FILTERING", "CLUSTERING",
                     "SYNTHESIZING", "CITATION_MAPPING", "QUALITY_CHECK"}
    /\ pl_state' = "FAILED"
    /\ UNCHANGED <<pl_trace, pl_callback, pl_progress, pl_keywords, pl_collected>>
    /\ UNCHANGED <<citeVars, dedupVars, filterVars, limiterVars, clusterVars, qaVars, gateVars, storeVars, collectVars, bandVars>>

PipelineNext ==
    \/ StartRun
    \/ EnterCollecting
    \/ CollectKeyword
    \/ EnterFiltering
    \/ EnterClustering
    \/ EnterSynthesizing
    \/ EnterCitationMapping
    \/ EnterQualityCheck
    \/ EnterRepairing
    \/ Finish
    \/ StageFails

SpecPipeline == Init /\ [][PipelineNext]_vars

-----------------------------------------------------------------------------
(* Analysis pipeline: properties                                           *)

StageOrder ==
    <<"COLLECTING", "FILTERING", "CLUSTERING", "SYNTHESIZING",
      "CITATION_MAPPING", "QUALITY_CHECK">>

\* the states of the run after the keyword expansion
StagesEntered == SubSeq(pl_trace, 2, Len(pl_trace))

IsPrefix(s, t) == Len(s) <= Len(t) /\ s = SubSeq(t, 1, Len(s))

\* the run goes through the states in order, and is DONE only at the end
\* of StageOrder or after REPAIRING
InStageOrder ==
    \/ IsPrefix(StagesEntered, StageOrder \o <<"DONE">>)
    \/ IsPrefix(StagesEntered, StageOrder \o <<"REPAIRING", "DONE">>)

\* the states whose entry was reported to the progress callback
ReportedStates == {pl_progress[i].state : i \in 1..Len(pl_progress)}

====
